---------------------------- MODULE Spec2Model ----------------------------
(***************************************************************************)
(* hash_search.c: brute-force search for a decimal suffix that makes the   *)
(* digest of stdin || suffix begin with a given hex prefix.                *)
(*                                                                         *)
(* Text is modelled as sequences of character codes (ASCII), bytes as      *)
(* 0..255, and unsigned long long as four 16-bit limbs, least significant  *)
(* first, so that 64-bit arithmetic keeps its width.                       *)
(***************************************************************************)
EXTENDS Integers, Sequences, FiniteSets, TLC

(***************************************************************************)
(* Bounds of the model.                                                    *)
(***************************************************************************)
\* largest -b exponent whose whole range is enumerated
MaxBits == 3
\* largest number of OpenMP threads
MaxThreads == 2
\* largest number of options on the command line
MaxOpts == 2

\* a worker runs at most this many iterations of its chunk
MaxIter == 2 ^ MaxBits

\* of a longer range each thread enumerates this many counters
MaxBigIter == 2

\* the write(2) calls of one reliable_write a schedule describes
MaxWrites == 2

(***************************************************************************)
(* Program constants.                                                      *)
(***************************************************************************)
SIZE == 16384
LONGLONGSTR == 21

(***************************************************************************)
(* Generic helpers.                                                        *)
(***************************************************************************)
Min(a, b) == IF a < b THEN a ELSE b

RECURSIVE Flatten(_)
Flatten(ss) == IF ss = <<>> THEN <<>> ELSE Head(ss) \o Flatten(Tail(ss))

SeqsUpTo(S, n) == UNION {[1..k -> S] : k \in 0..n}

(***************************************************************************)
(* unsigned long long: limbs base 2^16, x[1] least significant.            *)
(***************************************************************************)
Limb == 256 * 256

\* the values of unsigned long long
Words64 == [1..4 -> 0..Limb - 1]

U64(n) == <<n % Limb, (n \div Limb) % Limb, 0, 0>>

U64Max == <<Limb - 1, Limb - 1, Limb - 1, Limb - 1>>

\* the value as a natural number, for values below 2^31 only
IsSmall(x) == x[3] = 0 /\ x[4] = 0 /\ x[2] < 256 * 128
ToNat(x) == x[1] + Limb * x[2]

\* (unsigned long long)1 << k, 0 <= k <= 63
Shl1(k) == [i \in 1..4 |-> IF i = (k \div 16) + 1 THEN 2 ^ (k % 16) ELSE 0]

\* x + y mod 2^64
Add64[x \in Words64, y \in Words64] ==
    LET s1 == x[1] + y[1]
        s2 == x[2] + y[2] + (s1 \div Limb)
        s3 == x[3] + y[3] + (s2 \div Limb)
        s4 == x[4] + y[4] + (s3 \div Limb)
    IN  <<s1 % Limb, s2 % Limb, s3 % Limb, s4 % Limb>>

\* two's complement: 2^64 - x mod 2^64
Neg64[x \in Words64] == Add64[[i \in 1..4 |-> Limb - 1 - x[i]], U64(1)]

\* x - y mod 2^64
Sub64[x \in Words64, y \in Words64] == Add64[x, Neg64[y]]

\* x < y, unsigned
Lt64[x \in Words64, y \in Words64] ==
    \/ x[4] < y[4]
    \/ x[4] = y[4] /\ x[3] < y[3]
    \/ x[4] = y[4] /\ x[3] = y[3] /\ x[2] < y[2]
    \/ x[4] = y[4] /\ x[3] = y[3] /\ x[2] = y[2] /\ x[1] < y[1]

\* x * m mod 2^64 for a small m (m < 2^15)
MulSmall64[x \in Words64, m \in Nat] ==
    LET p1 == x[1] * m
        p2 == x[2] * m + (p1 \div Limb)
        p3 == x[3] * m + (p2 \div Limb)
        p4 == x[4] * m + (p3 \div Limb)
    IN  <<p1 % Limb, p2 % Limb, p3 % Limb, p4 % Limb>>

\* quotient and remainder of x by a small d (0 < d < 2^15)
DivSmall64[x \in Words64, d \in Nat] ==
    LET r4 == x[4]
        r3 == (r4 % d) * Limb + x[3]
        r2 == (r3 % d) * Limb + x[2]
        r1 == (r2 % d) * Limb + x[1]
    IN  [q |-> <<r1 \div d, r2 \div d, r3 \div d, r4 \div d>>, r |-> r1 % d]

\* the sign bit of the value read as long long
IsNeg64(x) == x[4] >= 256 * 128

(***************************************************************************)
(* Text: character codes.                                                  *)
(***************************************************************************)
IsDigit(c) == c >= 48 /\ c <= 57

IsHexChar(c) == IsDigit(c) \/ (c >= 97 /\ c <= 102) \/ (c >= 65 /\ c <= 70)

HexCharVal(c) == IF IsDigit(c) THEN c - 48 ELSE IF c >= 97 THEN c - 87 ELSE c - 55

\* the character fprintf's %x writes for a nibble
HexChar(v) == IF v < 10 THEN 48 + v ELSE 87 + v

\* the decimal digits of a value, none for 0
DecDigits[x \in Words64] ==
    IF x = U64(0) THEN <<>>
    ELSE DecDigits[DivSmall64[x, 10].q] \o <<48 + DivSmall64[x, 10].r>>

\* the decimal text of an unsigned value
Dec64(x) == IF x = U64(0) THEN <<48>> ELSE DecDigits[x]

\* what the conversion %lli writes for an unsigned long long argument: the
\* argument is read as long long
FormatLLI(x) == IF IsNeg64(x) THEN <<45>> \o Dec64(Neg64[x]) ELSE Dec64(x)

\* snprintf(data, size, "%lli", x): at most size - 1 characters are stored,
\* the length of the whole text is returned
snprintf(size, x) ==
    LET text == FormatLLI(x)
    IN  [data |-> SubSeq(text, 1, Min(Len(text), size - 1)), ret |-> Len(text)]

\* the digits of str read onto the value acc
AtolDigits[str \in Seq(Nat), acc \in Words64] ==
    IF str = <<>> \/ ~IsDigit(Head(str)) THEN acc
    ELSE AtolDigits[Tail(str), Add64[MulSmall64[acc, 10], U64(Head(str) - 48)]]

\* atol(str): optional sign, then digits up to the first other character
atol(str) ==
    IF str # <<>> /\ Head(str) = 45 THEN Neg64[AtolDigits[Tail(str), U64(0)]]
    ELSE AtolDigits[str, U64(0)]

\* the conversion long -> int of "shift = atol(optarg)": the low 32 bits, signed
LongToInt(x) ==
    IF x[2] < 256 * 128 THEN x[1] + Limb * x[2] ELSE x[1] + Limb * (x[2] - Limb)

\* the loop of print_result: "%02x" for each byte
HexText[bytes \in Seq(Nat)] ==
    IF bytes = <<>> THEN <<>>
    ELSE <<HexChar(Head(bytes) \div 16), HexChar(Head(bytes) % 16)>>
             \o HexText[Tail(bytes)]

\* print_result(f, result, len): the text written to f
print_result(result) == HexText[result]

(***************************************************************************)
(* get_value: the target prefix.                                           *)
(***************************************************************************)
\* sscanf(str, "%2x", &blah) on text without blanks, signs or 0x: the value
\* assigned to blah, or blah itself when the first character does not convert
sscanf2x(str, blah) ==
    IF str = <<>> \/ ~IsHexChar(str[1]) THEN blah
    ELSE IF Len(str) >= 2 /\ IsHexChar(str[2])
         THEN 16 * HexCharVal(str[1]) + HexCharVal(str[2])
         ELSE HexCharVal(str[1])

\* the loop of get_value from offset n on (n counts from 0), s so far
get_value_loop[str \in Seq(Nat), n \in Nat, blah \in Nat, s \in Seq(Nat)] ==
    IF ~(n < Len(str)) THEN s
    ELSE get_value_loop[str, n + 2,
                        sscanf2x(SubSeq(str, n + 1, Len(str)), blah),
                        Append(s, sscanf2x(SubSeq(str, n + 1, Len(str)), blah) % 256)]

\* get_value(str, s) with blah holding junk at entry: the bytes written to s
\* and the returned bit count
get_value(str, junk) ==
    LET s0 == get_value_loop[str, 0, junk, <<>>]
        s1 == IF Len(str) % 2 = 1
              THEN [s0 EXCEPT ![Len(s0)] = (s0[Len(s0)] * 16) % 256]
              ELSE s0
    IN  [s |-> s1, bits |-> 4 * Len(str)]

(***************************************************************************)
(* The digests of the library, scaled down: "md5" gives 2 bytes, "sha1" 3. *)
(***************************************************************************)
MD5 == <<109, 100, 53>>
SHA1 == <<115, 104, 97, 49>>

\* EVP_get_digestbyname: the digest, or NULL (<<>>) for an unknown name
EVP_get_digestbyname(name) == IF name \in {MD5, SHA1} THEN name ELSE <<>>

EVP_MD_size(md) == IF md = MD5 THEN 2 ELSE 3

DigestModulus(md) == 256 ^ EVP_MD_size(md)

\* EVP_DigestInit_ex: a context that has absorbed nothing
EVP_DigestInit_ex(md) == [md |-> md, h |-> IF md = MD5 THEN 5381 ELSE 40503]

\* the contexts of the library's digests
Contexts == [md : {MD5, SHA1}, h : Nat]

\* the context after absorbing the bytes in order
Absorb[ctx \in Contexts, bytes \in Seq(Nat)] ==
    IF bytes = <<>> THEN ctx
    ELSE Absorb[[ctx EXCEPT !.h = (ctx.h * (IF ctx.md = MD5 THEN 33 ELSE 31)
                                     + Head(bytes) + 1) % DigestModulus(ctx.md)],
                Tail(bytes)]

\* EVP_DigestUpdate(ctx, d, cnt)
EVP_DigestUpdate(ctx, bytes) == Absorb[ctx, bytes]

\* EVP_DigestFinal_ex: the digest bytes of what the context absorbed
EVP_DigestFinal_ex(ctx) ==
    LET f == (ctx.h * 13 + 5) % DigestModulus(ctx.md)
    IN  [i \in 1..EVP_MD_size(ctx.md) |-> (f \div (256 ^ (i - 1))) % 256]

(***************************************************************************)
(* The match test of the search loop.                                      *)
(***************************************************************************)
\* result[i] (i counts from 0): a byte the digest wrote, or what the
\* uninitialised array holds beyond result_len
ResultByte(result, i, junk) == IF i < Len(result) THEN result[i + 1] ELSE junk

\* the whole bytes only: the last nibble of an odd prefix is not compared
MatchesWholeBytes(result, s, bits, junk) ==
    \A i \in 0..(bits \div 8) - 1 : ResultByte(result, i, junk) = s[i + 1]

\* !memcmp(result, s, bits/8) && (bits%8 == 0 || high nibbles equal)
Matches(result, s, bits, junk) ==
    /\ \A i \in 0..(bits \div 8) - 1 : ResultByte(result, i, junk) = s[i + 1]
    /\ IF bits % 8 = 0 THEN TRUE
       ELSE ResultByte(result, bits \div 8, junk) \div 16 = s[(bits \div 8) + 1] \div 16

(***************************************************************************)
(* reliable_write.  The write(2) calls follow a schedule: call i returns   *)
(* -1 when sched[i] = -1 and otherwise accepts at most sched[i] bytes;     *)
(* calls after the schedule accept everything.                             *)
(***************************************************************************)
\* the byte at offset i of the caller's buffer; outside the buffer lies
\* memory the model does not know
ByteAt(buf, i, junk) == IF i >= 0 /\ i < Len(buf) THEN buf[i + 1] ELSE junk

\* temp = write(fd, buf, count)
WriteResult(count, sched) ==
    IF sched = <<>> THEN count
    ELSE IF Head(sched) = -1 THEN -1
    ELSE Min(Head(sched), count)

\* a loop that leaves buf where it is
AdvanceNever(pos, temp, count) == pos

\* if (count - temp) buf = (char*)buf + temp, in size_t arithmetic
Advance(pos, temp, count) == IF count - temp # 0 THEN pos + temp ELSE pos

\* the while loop: out is what fd holds, pos the offset of buf from the
\* start of the caller's buffer, count the bytes left, orig the first count
reliable_write_loop[out \in Seq(Nat), buf \in Seq(Nat), pos \in Int, count \in Nat, orig \in Nat, sched \in Seq(Int), junk \in Nat] ==
    IF count = 0 THEN [out |-> out, ret |-> orig]
    ELSE reliable_write_loop[
             out \o [i \in 1..WriteResult(count, sched) |-> ByteAt(buf, pos + i - 1, junk)],
             buf, Advance(pos, WriteResult(count, sched), count),
             count - WriteResult(count, sched), orig,
             IF sched = <<>> THEN <<>> ELSE Tail(sched), junk]

\* a single write call: what a short write leaves out is not written again
reliable_write_once(out, buf, count, sched, junk) ==
    [out |-> out \o SubSeq(buf, 1, WriteResult(count, sched)), ret |-> count]

\* what fd holds after reliable_write(fd, buf, count), and what it returns
reliable_write(out, buf, count, sched, junk) ==
    reliable_write_loop[out, buf, 0, count, count, sched, junk]

(***************************************************************************)
(* The command lines, inputs and environments of the model.                *)
(***************************************************************************)
OptB == <<45, 98>>
OptD == <<45, 100>>
OptL == <<45, 108>>
\* an option getopt does not know: -x
OptX == <<45, 120>>

\* -b arguments: 0, MaxBits - 1, MaxBits, 24, 64, 65 and 2^32 + 1
BitsArgs ==
    {Dec64(U64(0)), Dec64(U64(MaxBits - 1)), Dec64(U64(MaxBits)), <<50, 52>>,
     <<54, 52>>, <<54, 53>>, <<52, 50, 57, 52, 57, 54, 55, 50, 57, 55>>}

\* -d arguments: md5, sha1, nosuch
DigestArgs == {MD5, SHA1, <<110, 111, 115, 117, 99, 104>>}

Options ==
    {<<OptB, v>> : v \in BitsArgs} \cup {<<OptD, n>> : n \in DigestArgs}
        \cup {<<OptL>>, <<OptX>>}

\* hexdigits arguments: "", "f", "f03", "00", "g", "e33b00"
HexArgs ==
    {<<>>, <<102>>, <<102, 48, 51>>, <<48, 48>>, <<103>>,
     <<101, 51, 51, 98, 48, 48>>}

\* no operand, one, or two
OperandLists == {<<>>, <<<<48, 48>>, <<102>>>>} \cup {<<h>> : h \in HexArgs}

\* argv[1..argc-1]: options first, then the operands
CommandLines ==
    {Flatten(os) \o ops : os \in SeqsUpTo(Options, MaxOpts), ops \in OperandLists}

\* the contents of standard input: empty, "hi"
Inputs == {<<>>, <<104, 105>>}

\* values an uninitialised byte may hold
JunkBytes == {0, 255}

\* sizes a write(2) call may accept at most
WriteSizes == {1, 2, SIZE}

\* the schedules of the write calls of one reliable_write without a failure
WriteSchedules == SeqsUpTo(WriteSizes, MaxWrites)

(***************************************************************************)
(* State.                                                                  *)
(***************************************************************************)
VARIABLES
    argv,           \* argv[1..argc-1]
    optind,         \* getopt's index of the next argument
    nthreads,       \* omp_get_num_threads()
    tty,            \* isatty(0)
    stdin,          \* the bytes of standard input
    rpos,           \* file offset of standard input
    pc,             \* where main is
    exit_code,      \* the exit status, -1 while the process runs
    md,             \* the digest
    max_search,     \* unsigned long long
    make_matching,  \* 1: matching mode, 0: listing mode (-l)
    s,              \* the target prefix bytes
    bits,           \* its bit count
    hash_state,     \* the digest context of the input
    count,          \* blocks read, for the progress indicator
    stdout,         \* bytes written to standard output, in order
    stderr,         \* texts written to the diagnostic stream, in order
    wpc,            \* where each thread is in the parallel region
    wbeg,           \* the start of each thread's chunk
    new_bytes,      \* each thread's loop counter
    wend,           \* the end of each thread's chunk
    data,           \* each thread's formatted counter
    datalen,
    result,         \* each thread's digest
    critical,       \* the thread in the critical section, -1 when free
    io_error        \* "none", or the call that has returned -1

run == <<argv, nthreads, tty, stdin>>
cfg == <<run, io_error>>
opts == <<optind, md, max_search, make_matching>>
target == <<s, bits>>
input == <<rpos, hash_state, count>>
worker == <<wpc, wbeg, new_bytes, wend, data, datalen, result, critical>>
vars == <<cfg, opts, target, input, worker, pc, exit_code, stdout, stderr>>

Threads == 0..nthreads - 1

\* the thread numbers of the largest team
ThreadIds == 0..MaxThreads - 1

Msg(fmt) == [fmt |-> fmt, arg |-> <<>>]

argc == Len(argv) + 1

Init ==
    /\ argv \in CommandLines
    /\ nthreads \in 1..MaxThreads
    /\ stdin \in Inputs
    /\ tty \in (IF Len(argv) = 1 THEN BOOLEAN ELSE {FALSE})
    /\ optind = 1
    /\ rpos = 0
    /\ pc = "getopt"
    /\ io_error = "none"
    /\ exit_code = -1
    /\ md = MD5
    /\ max_search = U64(2 ^ 24)
    /\ make_matching = 1
    /\ s = <<>>
    /\ bits = 0
    /\ hash_state = [md |-> <<>>, h |-> 0]
    /\ count = 0
    /\ stdout = <<>>
    /\ stderr = <<>>
    /\ wpc = [t \in Threads |-> "idle"]
    /\ wbeg = [t \in Threads |-> U64(0)]
    /\ new_bytes = [t \in Threads |-> U64(0)]
    /\ wend = [t \in Threads |-> U64(0)]
    /\ data = [t \in Threads |-> <<>>]
    /\ datalen = [t \in Threads |-> 0]
    /\ result = [t \in Threads |-> <<>>]
    /\ critical = -1

(***************************************************************************)
(* main: options.                                                          *)
(***************************************************************************)
\* usage(ret): the usage text on stderr, then exit(ret)
usage(ret, err) ==
    /\ stderr' = err \o <<Msg("usage: hash_search [-b <bits>] [-d <digest>] [-l] hexdigits")>>
    /\ exit_code' = ret
    /\ pc' = "exited"

\* getopt(argc, argv, "b:d:l") on command lines whose operands come last:
\* the option character (63 is '?', -1 the end), its argument, the new optind
getopt ==
    IF optind > Len(argv) \/ Len(argv[optind]) < 2 \/ argv[optind][1] # 45
    THEN [ch |-> -1, optarg |-> <<>>, optind |-> optind]
    ELSE LET c == argv[optind][2]
         IN  IF c = 108 THEN [ch |-> c, optarg |-> <<>>, optind |-> optind + 1]
             ELSE IF c \in {98, 100}
             THEN IF optind + 1 > Len(argv)
                  THEN [ch |-> 63, optarg |-> <<>>, optind |-> optind + 1]
                  ELSE [ch |-> c, optarg |-> argv[optind + 1], optind |-> optind + 2]
             ELSE [ch |-> 63, optarg |-> <<>>, optind |-> optind + 1]

\* max_search for an accepted shift
ShiftBound(shift) ==
    IF shift >= 1 /\ shift <= 63 THEN Sub64[Shl1(shift), U64(1)] ELSE U64Max

\* case 'b'
OptionB ==
    /\ pc = "getopt"
    /\ getopt.ch = 98
    /\ optind' = getopt.optind
    /\ LET shift == LongToInt(atol(getopt.optarg))
       IN  \/ /\ (shift >= 1 /\ shift <= 63) \/ shift = 64
              /\ max_search' = ShiftBound(shift)
              /\ UNCHANGED <<pc, exit_code, stderr>>
           \/ /\ ~((shift >= 1 /\ shift <= 63) \/ shift = 64)
              /\ usage(1, stderr \o <<[fmt |-> "invalid number of bits: %s",
                                       arg |-> getopt.optarg]>>)
              /\ UNCHANGED max_search
    /\ UNCHANGED <<cfg, md, make_matching, target, input, worker, stdout>>

\* a case 'd' without its break: control falls into case 'l'
CaseDFallsThrough(mm) == 0

\* make_matching after case 'd': the break leaves the switch
CaseDBreak(mm) == mm

\* case 'd'
OptionD ==
    /\ pc = "getopt"
    /\ getopt.ch = 100
    /\ optind' = getopt.optind
    /\ md' = EVP_get_digestbyname(getopt.optarg)
    /\ \/ /\ md' # <<>>
          /\ UNCHANGED <<pc, exit_code, stdout, stderr>>
       \/ /\ md' = <<>>
          \* printf("Unknown message digest %s\n", optarg)
          /\ stdout' = stdout
                 \o <<85, 110, 107, 110, 111, 119, 110, 32, 109, 101, 115, 115,
                      97, 103, 101, 32, 100, 105, 103, 101, 115, 116, 32>>
                 \o getopt.optarg \o <<10>>
          /\ usage(1, stderr)
    /\ make_matching' = CaseDBreak(make_matching)
    /\ UNCHANGED <<cfg, max_search, target, input, worker>>

\* case 'l'
OptionL ==
    /\ pc = "getopt"
    /\ getopt.ch = 108
    /\ optind' = getopt.optind
    /\ make_matching' = 0
    /\ UNCHANGED <<cfg, md, max_search, target, input, worker, pc, exit_code,
                   stdout, stderr>>

\* default: an option getopt rejects
OptionUnknown ==
    /\ pc = "getopt"
    /\ getopt.ch = 63
    /\ optind' = getopt.optind
    /\ usage(1, stderr)
    /\ UNCHANGED <<cfg, md, max_search, make_matching, target, input, worker,
                   stdout>>

\* getopt returns -1; the operand count is checked and the prefix parsed
ParsePrefix ==
    /\ pc = "getopt"
    /\ getopt.ch = -1
    /\ \/ /\ argc - optind # 1
          /\ usage(1, stderr)
          /\ UNCHANGED target
       \/ /\ argc - optind = 1
          /\ \E junk \in JunkBytes :
                LET v == get_value(argv[optind], junk)
                IN  s' = v.s /\ bits' = v.bits
          /\ pc' = "init"
          /\ UNCHANGED <<exit_code, stderr>>
    /\ UNCHANGED <<cfg, opts, input, worker, stdout>>

(***************************************************************************)
(* main: hashing the input.                                                *)
(***************************************************************************)
\* EVP_MD_CTX_new, EVP_DigestInit_ex, the first diagnostic, isatty(0)
StartReading ==
    /\ pc = "init"
    /\ hash_state' = EVP_DigestInit_ex(md)
    /\ stderr' = stderr \o <<Msg("reading file to hash from stdin...")>>
                        \o (IF tty THEN <<Msg("\n")>> ELSE <<>>)
    /\ pc' = "reading"
    /\ UNCHANGED <<cfg, opts, target, rpos, count, worker, exit_code, stdout>>

\* one iteration of either read loop: read(0, buf, SIZE) returns n > 0
ReadBlock ==
    /\ pc = "reading"
    /\ rpos < Len(stdin)
    /\ \E n \in 1..Min(SIZE, Len(stdin) - rpos) :
          LET buf == SubSeq(stdin, rpos + 1, rpos + n)
          IN  /\ rpos' = rpos + n
              /\ hash_state' = EVP_DigestUpdate(hash_state, buf)
              /\ \/ /\ make_matching # 0
                    /\ \E sched \in WriteSchedules :
                          stdout' = reliable_write(stdout, buf, n, sched, 0).out
                 \/ /\ make_matching = 0
                    /\ UNCHANGED stdout
    /\ \/ /\ tty
          /\ UNCHANGED <<count, stderr>>
       \/ /\ ~tty
          /\ count' = count + 1
          /\ stderr' = stderr \o (IF count % 256 = 0 THEN <<Msg(".")>> ELSE <<>>)
    /\ UNCHANGED <<cfg, opts, target, worker, pc, exit_code>>

\* read returns 0: the loop ends, the search is announced and the parallel
\* region is entered
BeginSearch ==
    /\ pc = "reading"
    /\ rpos = Len(stdin)
    /\ stderr' = stderr
          \o (IF tty THEN <<>> ELSE <<Msg("\n")>>)
          \o <<Msg("beginning search (original hash = "),
               [fmt |-> "print_result", arg |-> EVP_DigestFinal_ex(hash_state)],
               [fmt |-> ")\nsearching 0 to %#llx...\n", arg |-> max_search]>>
    /\ pc' = "searching"
    /\ wpc' = [t \in Threads |-> "start"]
    /\ UNCHANGED <<cfg, opts, target, input, exit_code, stdout, new_bytes, wbeg, wend,
                   data, datalen, result, critical>>

(***************************************************************************)
(* The parallel region.                                                    *)
(***************************************************************************)
\* schedule(static) without a chunk size: thread t of n gets one contiguous
\* chunk, the first (iterations mod n) threads one iteration more
ChunkLo(t) ==
    LET d == DivSmall64[max_search, nthreads]
    IN  IF t < d.r THEN MulSmall64[Add64[d.q, U64(1)], t]
        ELSE Add64[MulSmall64[d.q, t], U64(d.r)]

\* chunks of the quotient only: the remainder is left out
ChunkHiTruncated(t) ==
    Add64[ChunkLo(t), DivSmall64[max_search, nthreads].q]

ChunkHi(t) ==
    LET d == DivSmall64[max_search, nthreads]
    IN  Add64[ChunkLo(t), IF t < d.r THEN Add64[d.q, U64(1)] ELSE d.q]

\* ranges of at most 2^MaxBits counters are enumerated whole; of a longer
\* range each thread enumerates the first MaxBigIter counters of its chunk,
\* and the last MaxBigIter counters when it is started there
WithinBounds(t) ==
    \/ ~Lt64[U64(MaxIter), max_search]
    \/ Lt64[new_bytes[t], Add64[wbeg[t], U64(MaxBigIter)]]
    \/ ~Lt64[new_bytes[t], Sub64[wend[t], U64(MaxBigIter)]]

\* a loop test that lets the bound itself through
LoopCondInclusive(t) == ~Lt64[wend[t], new_bytes[t]]

\* the loop test new_bytes < max_search, on the thread's chunk
LoopCond(t) == Lt64[new_bytes[t], wend[t]]

\* a critical section that excludes nobody
CriticalFreeUnguarded == TRUE

\* #pragma omp critical: the section is free
CriticalFree == critical = -1

\* a loop that does not advance
NextCounterStuck(x) == x

\* new_bytes++
NextCounter(x) == Add64[x, U64(1)]

\* the thread enters the region and is given its chunk
WorkerStart(t) ==
    /\ pc = "searching"
    /\ t \in Threads
    /\ wpc[t] = "start"
    /\ stderr' = stderr \o (IF t = 0
                            THEN <<[fmt |-> "Using %i threads for search.\n",
                                    arg |-> nthreads]>>
                            ELSE <<>>)
    /\ wbeg' = [wbeg EXCEPT ![t] = ChunkLo(t)]
    /\ new_bytes' = [new_bytes EXCEPT ![t] = wbeg'[t]]
    /\ wend' = [wend EXCEPT ![t] = ChunkHi(t)]
    /\ wpc' = [wpc EXCEPT ![t] = "loop"]
    /\ UNCHANGED <<cfg, opts, target, input, pc, exit_code, stdout, data,
                   datalen, result, critical>>

\* EVP_MD_CTX_copy_ex(out, in): out becomes a context of its own that has
\* absorbed what in has absorbed
EVP_MD_CTX_copy_ex(in) == in

\* a loop body that updates hash_state itself
BaseAliased(base, final_state) == final_state

\* hash_state after the loop body has updated and finalised final_state: the
\* two are separate objects
BaseAfterCandidate(base, final_state) == base

\* one candidate: copy the context, format the counter, hash, compare
Candidate(t) ==
    /\ pc = "searching"
    /\ t \in Threads
    /\ wpc[t] = "loop"
    /\ LoopCond(t)
    /\ WithinBounds(t)
    /\ data' = [data EXCEPT ![t] = snprintf(LONGLONGSTR, new_bytes[t]).data]
    /\ datalen' = [datalen EXCEPT ![t] = snprintf(LONGLONGSTR, new_bytes[t]).ret]
    \* final_state is a copy of hash_state, updated and finalised
    /\ LET final_state == EVP_DigestUpdate(EVP_MD_CTX_copy_ex(hash_state),
                                          SubSeq(data'[t], 1, datalen'[t]))
       IN  /\ result' = [result EXCEPT ![t] = EVP_DigestFinal_ex(final_state)]
           /\ hash_state' = BaseAfterCandidate(hash_state, final_state)
    /\ \E junk \in JunkBytes :
          \/ /\ Matches(result'[t], s, bits, junk)
             /\ wpc' = [wpc EXCEPT ![t] = "wait"]
             /\ UNCHANGED new_bytes
          \/ /\ ~Matches(result'[t], s, bits, junk)
             /\ new_bytes' = [new_bytes EXCEPT ![t] = NextCounter(new_bytes[t])]
             /\ UNCHANGED wpc
    /\ UNCHANGED <<cfg, opts, target, rpos, count, pc, exit_code, stdout, stderr, wbeg,
                   wend, critical>>

\* the chunk is done: the thread waits at the barrier that ends the loop
ChunkDone(t) ==
    /\ pc = "searching"
    /\ t \in Threads
    /\ wpc[t] = "loop"
    /\ ~LoopCond(t)
    /\ wpc' = [wpc EXCEPT ![t] = "barrier"]
    /\ UNCHANGED <<cfg, opts, target, input, pc, exit_code, stdout, stderr,
                   new_bytes, wbeg, wend, data, datalen, result, critical>>

\* #pragma omp critical: enter when no thread is inside
EnterCritical(t) ==
    /\ pc = "searching"
    /\ t \in Threads
    /\ wpc[t] = "wait"
    /\ CriticalFree
    /\ critical' = t
    /\ wpc' = [wpc EXCEPT ![t] = IF make_matching # 0 THEN "report" ELSE "print"]
    /\ UNCHANGED <<cfg, opts, target, input, pc, exit_code, stdout, stderr,
                   new_bytes, wbeg, wend, data, datalen, result>>

\* matching mode: the success notice and the new hash on stderr
ReportMatch(t) ==
    /\ pc = "searching"
    /\ t \in Threads
    /\ wpc[t] = "report"
    /\ stderr' = stderr \o <<Msg("found match!\n"), Msg("new hash is "),
                             [fmt |-> "print_result", arg |-> result[t]],
                             Msg("\n")>>
    /\ wpc' = [wpc EXCEPT ![t] = "write"]
    /\ UNCHANGED <<cfg, opts, target, input, pc, exit_code, stdout, new_bytes,
                   wbeg, wend, data, datalen, result, critical>>

\* matching mode: reliable_write(1, data, datalen)
WriteMatch(t) ==
    /\ pc = "searching"
    /\ t \in Threads
    /\ wpc[t] = "write"
    /\ \E sched \in WriteSchedules :
          stdout' = reliable_write(stdout, data[t], datalen[t], sched, 0).out
    /\ wpc' = [wpc EXCEPT ![t] = "close"]
    /\ UNCHANGED <<cfg, opts, target, input, pc, exit_code, stderr, new_bytes,
                   wbeg, wend, data, datalen, result, critical>>

\* matching mode: close(1); exit(0) ends the process inside the section
ExitFound(t) ==
    /\ pc = "searching"
    /\ t \in Threads
    /\ wpc[t] = "close"
    /\ exit_code' = 0
    /\ pc' = "exited"
    /\ UNCHANGED <<cfg, opts, target, input, stdout, stderr, worker>>

\* listing mode: print_result(stdout, result, result_len)
PrintDigest(t) ==
    /\ pc = "searching"
    /\ t \in Threads
    /\ wpc[t] = "print"
    /\ stdout' = stdout \o print_result(result[t])
    /\ wpc' = [wpc EXCEPT ![t] = "line"]
    /\ UNCHANGED <<cfg, opts, target, input, pc, exit_code, stderr, new_bytes,
                   wbeg, wend, data, datalen, result, critical>>

\* listing mode: fprintf(stdout, " ascii %lli\n", new_bytes), the section is
\* left and the loop goes on
PrintCounter(t) ==
    /\ pc = "searching"
    /\ t \in Threads
    /\ wpc[t] = "line"
    /\ stdout' = stdout \o <<32, 97, 115, 99, 105, 105, 32>>
                        \o FormatLLI(new_bytes[t]) \o <<10>>
    /\ critical' = -1
    /\ new_bytes' = [new_bytes EXCEPT ![t] = NextCounter(new_bytes[t])]
    /\ wpc' = [wpc EXCEPT ![t] = "loop"]
    /\ UNCHANGED <<cfg, opts, target, input, pc, exit_code, stderr, wbeg, wend, data,
                   datalen, result>>

\* every thread has passed the barrier: the failure notice and the return
SearchOver ==
    /\ pc = "searching"
    /\ \A t \in Threads : wpc[t] = "barrier"
    /\ stderr' = stderr \o (IF make_matching # 0 THEN <<Msg("no match found.\n")>>
                            ELSE <<>>)
    /\ exit_code' = make_matching
    /\ pc' = "exited"
    /\ UNCHANGED <<cfg, opts, target, input, stdout, worker>>

\* a step of thread t of the team
Thread(t) ==
    \/ WorkerStart(t) \/ Candidate(t) \/ ChunkDone(t) \/ EnterCritical(t)
    \/ ReportMatch(t) \/ WriteMatch(t) \/ ExitFound(t)
    \/ PrintDigest(t) \/ PrintCounter(t)

Next ==
    \/ OptionB \/ OptionD \/ OptionL \/ OptionUnknown \/ ParsePrefix
    \/ StartReading \/ ReadBlock \/ BeginSearch
    \/ \E t \in ThreadIds : Thread(t)
    \/ SearchOver

Spec == Init /\ [][Next]_vars

\* the search under fair scheduling: a thread that can take a step does so,
\* and main goes on once every thread is at the barrier
FairSpec ==
    Spec /\ WF_vars(SearchOver) /\ \A t \in ThreadIds : WF_vars(Thread(t))

(***************************************************************************)
(* Failing I/O.  A read or a write returns -1 once in a run; none of the   *)
(* callers looks at errno or compares the result with -1.                  *)
(***************************************************************************)
\* schedules of one reliable_write in which a write call returns -1 and a
\* later call goes through
FaultSchedules ==
    {sched \in SeqsUpTo(WriteSizes \cup {-1}, MaxWrites) :
        \E i \in 1..Len(sched) : sched[i] = -1}

\* the exit status of a process killed by SIGSEGV
SegvStatus == 139

\* read(0, buf, SIZE) returns -1: n is not 0, the loop body runs with
\* (size_t)n = 2^64 - 1.  EVP_DigestUpdate reads beyond buf: the process is
\* killed, or bytes that are not input are absorbed (and echoed) and the
\* loop goes on
ReadFault ==
    /\ pc = "reading"
    /\ io_error = "none"
    /\ io_error' = "read"
    /\ \/ /\ pc' = "exited"
          /\ exit_code' = SegvStatus
          /\ UNCHANGED <<input, stdout, stderr>>
       \/ /\ \E junk \in JunkBytes :
                /\ hash_state' = EVP_DigestUpdate(hash_state, <<junk>>)
                /\ stdout' = IF make_matching # 0 THEN stdout \o <<junk>> ELSE stdout
          /\ IF tty THEN UNCHANGED <<count, stderr>>
             ELSE /\ count' = count + 1
                  /\ stderr' = stderr \o (IF count % 256 = 0 THEN <<Msg(".")>> ELSE <<>>)
          /\ UNCHANGED <<rpos, pc, exit_code>>
    /\ UNCHANGED <<run, opts, target, worker>>

\* an iteration of a read loop in matching mode in which a write of the echo
\* returns -1: reliable_write goes on with buf - 1 and count + 1; when every
\* later write fails too the loop never ends
EchoFault ==
    /\ pc = "reading"
    /\ io_error = "none"
    /\ make_matching # 0
    /\ rpos < Len(stdin)
    /\ io_error' = "write"
    /\ \E n \in 1..Min(SIZE, Len(stdin) - rpos) :
          LET buf == SubSeq(stdin, rpos + 1, rpos + n)
          IN  \/ /\ rpos' = rpos + n
                 /\ hash_state' = EVP_DigestUpdate(hash_state, buf)
                 /\ \E sched \in FaultSchedules, junk \in JunkBytes :
                       stdout' = reliable_write(stdout, buf, n, sched, junk).out
                 /\ IF tty THEN UNCHANGED <<count, stderr>>
                    ELSE /\ count' = count + 1
                         /\ stderr' = stderr \o (IF count % 256 = 0 THEN <<Msg(".")>>
                                                  ELSE <<>>)
                 /\ UNCHANGED pc
              \/ /\ rpos' = rpos + n
                 /\ hash_state' = EVP_DigestUpdate(hash_state, buf)
                 /\ pc' = "hung"
                 /\ UNCHANGED <<count, stdout, stderr>>
    /\ UNCHANGED <<run, opts, target, worker, exit_code>>

\* a write of the counter text returns -1
WriteMatchFault(t) ==
    /\ pc = "searching"
    /\ io_error = "none"
    /\ t \in Threads
    /\ wpc[t] = "write"
    /\ io_error' = "write"
    /\ \/ /\ \E sched \in FaultSchedules, junk \in JunkBytes :
                stdout' = reliable_write(stdout, data[t], datalen[t], sched, junk).out
          /\ wpc' = [wpc EXCEPT ![t] = "close"]
          /\ UNCHANGED pc
       \/ /\ pc' = "hung"
          /\ UNCHANGED <<stdout, wpc>>
    /\ UNCHANGED <<run, opts, target, input, exit_code, stderr, new_bytes,
                   wbeg, wend, data, datalen, result, critical>>

FaultNext ==
    \/ Next
    \/ ReadFault \/ EchoFault
    \/ \E t \in ThreadIds : WriteMatchFault(t)

\* the program in an environment whose reads and writes may fail
FaultSpec == Init /\ [][FaultNext]_vars

(***************************************************************************)
(* The end of the enumeration of -b 64: a search in matching mode in which *)
(* every thread has run its chunk up to its last MaxBigIter counters       *)
(* without a match.                                                        *)
(***************************************************************************)
\* hexdigits arguments of these searches: "00", "3", "4", "40b"
LoopHexArgs == {<<48, 48>>, <<51>>, <<52>>, <<52, 48, 98>>}

\* the digest the loop body computes for counter c
LoopDigest(c) ==
    EVP_DigestFinal_ex(
        EVP_DigestUpdate(hash_state,
                         SubSeq(snprintf(LONGLONGSTR, c).data, 1,
                                snprintf(LONGLONGSTR, c).ret)))

LoopInit ==
    /\ argv \in {<<OptB, <<54, 52>>, h>> : h \in LoopHexArgs}
    /\ nthreads \in 1..MaxThreads
    /\ stdin \in Inputs
    /\ tty = FALSE
    /\ optind = 3
    /\ rpos = Len(stdin)
    /\ pc = "searching"
    /\ io_error = "none"
    /\ exit_code = -1
    /\ md = MD5
    /\ max_search = ShiftBound(64)
    /\ make_matching = 1
    /\ s = get_value(argv[optind], 0).s
    /\ bits = get_value(argv[optind], 0).bits
    /\ hash_state = EVP_DigestUpdate(EVP_DigestInit_ex(md), stdin)
    /\ count \in (IF stdin = <<>> THEN {0} ELSE 1..Len(stdin))
    /\ stdout = stdin
    /\ stderr = <<Msg("reading file to hash from stdin...")>>
                    \o (IF count > 0 THEN <<Msg(".")>> ELSE <<>>)
                    \o <<Msg("\n"), Msg("beginning search (original hash = "),
                         [fmt |-> "print_result", arg |-> EVP_DigestFinal_ex(hash_state)],
                         [fmt |-> ")\nsearching 0 to %#llx...\n", arg |-> max_search],
                         [fmt |-> "Using %i threads for search.\n", arg |-> nthreads]>>
    /\ wpc = [t \in Threads |-> "loop"]
    /\ wbeg = [t \in Threads |-> ChunkLo(t)]
    /\ wend = [t \in Threads |-> ChunkHi(t)]
    /\ \E ks \in [Threads -> 0..MaxBigIter] :
          new_bytes = [t \in Threads |-> Sub64[wend[t], U64(ks[t])]]
    \* the iteration before left its text and its digest, and did not match
    /\ data = [t \in Threads |->
                  snprintf(LONGLONGSTR, Sub64[new_bytes[t], U64(1)]).data]
    /\ datalen = [t \in Threads |->
                     snprintf(LONGLONGSTR, Sub64[new_bytes[t], U64(1)]).ret]
    /\ result = [t \in Threads |-> LoopDigest(Sub64[new_bytes[t], U64(1)])]
    /\ \A t \in Threads : ~Matches(result[t], s, bits, 0)
    /\ critical = -1

\* a step of thread t in a search in matching mode
LoopThread(t) ==
    \/ Candidate(t) \/ ChunkDone(t) \/ EnterCritical(t)
    \/ ReportMatch(t) \/ WriteMatch(t) \/ ExitFound(t)

LoopNext == (\E t \in ThreadIds : LoopThread(t)) \/ SearchOver

LoopSpec ==
    /\ LoopInit /\ [][LoopNext]_vars
    /\ WF_vars(SearchOver) /\ \A t \in ThreadIds : WF_vars(LoopThread(t))

(***************************************************************************)
(* Vocabulary of the properties.                                           *)
(***************************************************************************)
MatchingMode == make_matching # 0

\* the parallel region was entered
Searched == pc \in {"searching", "exited"} /\ \A t \in Threads : wpc[t] # "idle"

\* the process ended in exit(0) of the critical section
Found == pc = "exited" /\ \E t \in Threads : wpc[t] = "close"

\* the process ended by returning from main after the search
Exhausted == pc = "exited" /\ \A t \in Threads : wpc[t] = "barrier"

\* the process ended in usage()
UsageExit == pc = "exited" /\ \A t \in Threads : wpc[t] = "idle"

\* how often a text was written to stderr
CountMsg(fmt) == Cardinality({i \in DOMAIN stderr : stderr[i].fmt = fmt})

\* the digests written to stderr after the success notice
ReportedDigests ==
    {stderr[i].arg : i \in {j \in DOMAIN stderr :
                               /\ stderr[j].fmt = "print_result"
                               /\ \E k \in 1..j - 1 : stderr[k].fmt = "found match!\n"}}

\* the hexdigits operand, when there is exactly one
HexArg == argv[Len(argv)]

\* the digest of a whole byte sequence, computed from scratch
DigestOf(m, bytes) ==
    EVP_DigestFinal_ex(EVP_DigestUpdate(EVP_DigestInit_ex(m), bytes))

\* nibble i (from 1) of a digest
Nibble(digest, i) ==
    IF i % 2 = 1 THEN digest[(i + 1) \div 2] \div 16 ELSE digest[i \div 2] % 16

\* the prefix predicate: the text is hex digits, no longer than the digest,
\* and the leading nibbles of the digest are those digits
PrefixHolds(digest, hex) ==
    /\ \A i \in 1..Len(hex) : IsHexChar(hex[i])
    /\ Len(hex) <= 2 * Len(digest)
    /\ \A i \in 1..Len(hex) : Nibble(digest, i) = HexCharVal(hex[i])

\* counter c (a natural number) qualifies for the run's input and prefix
Qualifies(c) ==
    PrefixHolds(DigestOf(md, stdin \o FormatLLI(U64(c))), HexArg)

\* the whole range is enumerated by the model (it is not cut by MaxBigIter)
WholeRange == ~Lt64[U64(MaxIter), max_search]

(***************************************************************************)
(* C1: in matching mode at most one candidate is ever claimed: at most one *)
(* thread is in the claim/report step, 'found match!' is reported once     *)
(* per claim, and standard output holds, after the echoed input, the bytes *)
(* of exactly the claiming thread's candidate and of no other.             *)
(***************************************************************************)
C1_SingleClaim ==
    (MatchingMode /\ Searched) =>
        LET claiming == {t \in Threads : wpc[t] \in {"report", "write", "close"}}
            reported == {t \in Threads : wpc[t] \in {"write", "close"}}
            written == {t \in Threads : wpc[t] = "close"}
        IN  /\ Cardinality(claiming) <= 1
            /\ CountMsg("found match!\n") = Cardinality(reported)
            /\ CountMsg("found match!\n") <= 1
            /\ \/ written = {} /\ stdout = stdin
               \/ \E t \in written : stdout = stdin \o SubSeq(data[t], 1, datalen[t])

\* two threads hold a qualifying candidate, one has claimed and written, the
\* other waits at the critical section
C1_Witness ==
    /\ MatchingMode
    /\ \E t1, t2 \in Threads : t1 # t2 /\ wpc[t1] = "close" /\ wpc[t2] = "wait"

(***************************************************************************)
(* C2: in matching mode, whenever the run ends in Found, standard output   *)
(* is exactly the input followed by the decimal text of one counter c of   *)
(* the claiming thread with 0 <= c < max_search, the digest of that whole  *)
(* output satisfies the prefix predicate, and the digest reported on       *)
(* stderr is the digest of that same output.                               *)
(***************************************************************************)
C2_Claim ==
    (MatchingMode /\ Found) =>
        \E t \in Threads :
            /\ wpc[t] = "close"
            /\ Lt64[new_bytes[t], max_search]
            /\ stdout = stdin \o Dec64(new_bytes[t])
            /\ PrefixHolds(DigestOf(md, stdout), HexArg)
            /\ ReportedDigests = {DigestOf(md, stdout)}

(***************************************************************************)
(* C3: in matching mode under fair scheduling a search of a whole range    *)
(* ends, either in Found with exit status 0 or in Exhausted with exit      *)
(* status 1 and 'no match found.', never both; and it ends Exhausted only  *)
(* with every chunk enumerated to its end, the chunks covering             *)
(* [0, max_search), and no counter of the range qualifying; so it ends in  *)
(* Found whenever a counter qualifies.                                     *)
(***************************************************************************)
C3_FoundRight ==
    IF MatchingMode /\ Found THEN exit_code = 0 /\ ~Exhausted ELSE FALSE

C3_ExhaustedRight ==
    IF MatchingMode /\ Exhausted
    THEN /\ exit_code = 1
         /\ CountMsg("no match found.\n") = 1
         /\ ~Found
         /\ wbeg[0] = U64(0)
         /\ wend[nthreads - 1] = max_search
         /\ \A t \in Threads :
               /\ new_bytes[t] = wend[t]
               /\ t + 1 \in Threads => wend[t] = wbeg[t + 1]
         /\ IsSmall(max_search)
         /\ \A c \in 0..ToNat(max_search) - 1 : ~Qualifies(c)
    ELSE FALSE

C3_Terminates ==
    (IF MatchingMode /\ pc = "searching" THEN WholeRange ELSE FALSE)
        ~> (IF Found THEN C3_FoundRight ELSE C3_ExhaustedRight)

\* a run of two threads ended in Found while the other thread was still in
\* its chunk
C3_Witness ==
    /\ MatchingMode /\ Found /\ nthreads = 2
    /\ \E t \in Threads : wpc[t] = "loop" /\ Lt64[new_bytes[t], wend[t]]

(***************************************************************************)
(* The command line as the documentation reads it.                         *)
(***************************************************************************)
\* the decimal texts of 1..64
BitsTexts == {Dec64(U64(n)) : n \in 1..64}

\* the number a text of BitsTexts stands for
BitsValue(text) == CHOOSE n \in 1..64 : Dec64(U64(n)) = text

\* 2^b - 1 for b in 1..64, limb by limb
Pow2Minus1(b) ==
    [i \in 1..4 |-> IF 16 * i <= b THEN Limb - 1
                    ELSE IF 16 * (i - 1) < b THEN 2 ^ (b - 16 * (i - 1)) - 1
                    ELSE 0]

\* the positions of the options of one letter that getopt has processed
Processed(opt) == {i \in 1..optind - 2 : argv[i] = opt}

\* an unknown digest name or a bit count outside 1..64 has been processed
BadOptionProcessed ==
    \/ \E i \in Processed(OptD) : argv[i + 1] \notin {MD5, SHA1}
    \/ \E i \in Processed(OptB) : argv[i + 1] \notin BitsTexts

\* the options are over and there is no hexdigits operand
MissingPrefix == getopt.ch = -1 /\ argc - optind = 0

\* the options are over and the one operand is empty or has a character
\* that is not a hex digit
MalformedPrefix ==
    /\ getopt.ch = -1
    /\ argc - optind = 1
    /\ \/ argv[optind] = <<>>
       \/ \E i \in DOMAIN argv[optind] : ~IsHexChar(argv[optind][i])

\* a configuration error of the documentation
ConfigError == BadOptionProcessed \/ MissingPrefix \/ MalformedPrefix

(***************************************************************************)
(* The lines of standard output in listing mode.                           *)
(***************************************************************************)
\* the complete lines of a text, without their newlines; cur is the line
\* being collected
LinesOf[text \in Seq(Nat), cur \in Seq(Nat)] ==
    IF text = <<>> THEN <<>>
    ELSE IF Head(text) = 10 THEN <<cur>> \o LinesOf[Tail(text), <<>>]
    ELSE LinesOf[Tail(text), Append(cur, Head(text))]

\* the last field of a line: what follows its last space
LastField(line) ==
    LET spaces == {i \in DOMAIN line : line[i] = 32}
    IN  IF spaces = {} THEN line
        ELSE SubSeq(line, (CHOOSE i \in spaces : \A j \in spaces : j <= i) + 1,
                    Len(line))

\* the counters of the lines written so far, in the order of the lines; the
\* text of a counter is read back as a 64-bit value
ListedCounters ==
    [i \in DOMAIN LinesOf[stdout, <<>>] |-> atol(LastField(LinesOf[stdout, <<>>][i]))]

\* the counters of [0, max_search) that qualify, for a range below 2^31
QualifyingCounters == {c \in 0..ToNat(max_search) - 1 : Qualifies(c)}

\* counter c lies in the chunk of thread t
InChunk(c, t) == ~Lt64[c, wbeg[t]] /\ Lt64[c, wend[t]]

(***************************************************************************)
(* C4: in listing mode, when the enumeration of the range is complete, the *)
(* number of lines on standard output is the number of counters of         *)
(* [0, max_search) that satisfy the prefix predicate, and the listed       *)
(* counters are exactly those counters, each once, whatever the number of  *)
(* threads and the interleaving.                                           *)
(***************************************************************************)
C4_Claim ==
    (~MatchingMode /\ Exhausted /\ WholeRange) =>
        /\ Len(ListedCounters) = Cardinality(QualifyingCounters)
        /\ {ListedCounters[i] : i \in DOMAIN ListedCounters}
               = {U64(c) : c \in QualifyingCounters}

(***************************************************************************)
(* C5: in listing mode, on a valid command line, the lines on standard     *)
(* output appear in strictly ascending counter order, for every number of  *)
(* threads and every interleaving.                                         *)
(***************************************************************************)
C5_Claim ==
    (~MatchingMode /\ ~ConfigError) =>
        \A i, j \in DOMAIN ListedCounters :
            i < j => Lt64[ListedCounters[i], ListedCounters[j]]

(***************************************************************************)
(* C5, amended: in a listing-mode search every listed counter belongs to   *)
(* the chunk of one thread, and the lines of the counters of any one       *)
(* thread's chunk                                                          *)
(* appear in strictly ascending counter order; so the whole output is      *)
(* ascending when a single thread runs.  Lines of different chunks may     *)
(* appear in any relative order.                                           *)
(***************************************************************************)
C5_Amended ==
    (~MatchingMode /\ Searched) =>
        /\ \A i \in DOMAIN ListedCounters :
               \E t \in Threads : InChunk(ListedCounters[i], t)
        /\ \A t \in Threads : \A i, j \in DOMAIN ListedCounters :
               (i < j /\ InChunk(ListedCounters[i], t) /\ InChunk(ListedCounters[j], t))
                   => Lt64[ListedCounters[i], ListedCounters[j]]
        /\ nthreads = 1 => C5_Claim

\* two threads have listed: a counter of the second chunk stands before a
\* counter of the first, and two counters of one chunk stand in order
C5_Witness ==
    /\ ~MatchingMode /\ nthreads = 2
    /\ \E i, j, k \in DOMAIN ListedCounters :
          /\ i < j /\ j < k
          /\ InChunk(ListedCounters[i], 1)
          /\ InChunk(ListedCounters[j], 0) /\ InChunk(ListedCounters[k], 0)

(***************************************************************************)
(* C6: the exit status is, in matching mode, 0 exactly when a match was    *)
(* found and written and 1 on exhaustion; in listing mode 0 when the       *)
(* enumeration completes; and not 0 after any configuration error.         *)
(***************************************************************************)
C6_Claim ==
    pc = "exited" =>
        /\ ConfigError => exit_code # 0
        /\ (~ConfigError /\ MatchingMode) =>
               /\ exit_code = 0 <=> Found
               /\ Exhausted => exit_code = 1
        /\ (~ConfigError /\ ~MatchingMode /\ Exhausted) => exit_code = 0

(***************************************************************************)
(* C7: once an unknown -d digest name or a -b value outside 1..64 has been *)
(* processed, the program has exited with status 1, with nothing written   *)
(* to standard output and no byte of standard input read.                  *)
(***************************************************************************)
C7_Claim ==
    BadOptionProcessed =>
        /\ pc = "exited" /\ exit_code = 1
        /\ stdout = <<>>
        /\ stderr # <<>>
        /\ rpos = 0

(***************************************************************************)
(* C8: a hexdigits operand that is empty or has a character that is not a  *)
(* hex digit, and a missing operand, are rejected: once the options are    *)
(* over the process has exited with a status other than 0, has read no     *)
(* input and has started no search.                                        *)
(***************************************************************************)
C8_Claim ==
    (pc # "getopt" /\ (MissingPrefix \/ MalformedPrefix)) =>
        /\ pc = "exited" /\ exit_code # 0
        /\ rpos = 0
        /\ \A t \in Threads : wpc[t] = "idle"

(***************************************************************************)
(* C9: in matching mode, when the run of a valid command line ends in      *)
(* Exhausted, nothing has been written to standard output, and 'no match   *)
(* found.' is on stderr.                                                   *)
(***************************************************************************)
C9_Claim ==
    (MatchingMode /\ Exhausted /\ ~ConfigError) =>
        /\ stdout = <<>>
        /\ CountMsg("no match found.\n") = 1

(***************************************************************************)
(* C9, amended: in matching mode, when the run ends in Exhausted, standard *)
(* output holds the echo of the input made while reading, which is the     *)
(* input's bytes in order, and nothing of any candidate; no match was      *)
(* reported, and 'no match found.' is the last text on stderr.             *)
(***************************************************************************)
C9_Amended ==
    (MatchingMode /\ Exhausted) =>
        /\ stdout = stdin
        /\ CountMsg("found match!\n") = 0
        /\ CountMsg("no match found.\n") = 1
        /\ stderr[Len(stderr)] = Msg("no match found.\n")

\* a search of two threads over a non-empty input ended in Exhausted
C9_Witness ==
    /\ MatchingMode /\ Exhausted
    /\ stdin # <<>> /\ nthreads = 2
    /\ \A t \in Threads : Lt64[wbeg[t], new_bytes[t]]

(***************************************************************************)
(* C10: once a valid command line is accepted, max_search is 2^bits - 1    *)
(* for the last -b <bits> given with bits in 1..64 (2^64 - 1 for 64), and  *)
(* without -b it is the bound of -b 24.                                    *)
(***************************************************************************)
C10_Claim ==
    (pc = "init" /\ ~ConfigError) =>
        IF Processed(OptB) = {}
        THEN max_search = Pow2Minus1(24)
        ELSE LET last == CHOOSE i \in Processed(OptB) :
                             \A j \in Processed(OptB) : j <= i
             IN  argv[last + 1] \in BitsTexts
                     => max_search = Pow2Minus1(BitsValue(argv[last + 1]))

(***************************************************************************)
(* C11: with -b 64 the loop counter never wraps around and the             *)
(* enumeration ends: a counter only ever grows, and only while it is below *)
(* the end of its chunk, so no counter is visited twice; a thread leaves   *)
(* the loop with its counter at the end of its chunk, the last chunk ends  *)
(* at max_search = 2^64 - 1; and the run ends, in Exhausted with 'no match *)
(* found.' and exit status 1 when no thread claimed a match.               *)
(***************************************************************************)
C11_CounterGrows ==
    \A t \in Threads :
        \/ new_bytes'[t] = new_bytes[t]
        \/ Lt64[new_bytes[t], wend[t]] /\ Lt64[new_bytes[t], new_bytes'[t]]

C11_LoopExit ==
    IF max_search = U64Max /\ wend[nthreads - 1] = max_search
    THEN \A t \in Threads :
            /\ ~Lt64[new_bytes[t], wbeg[t]] /\ ~Lt64[wend[t], new_bytes[t]]
            /\ wpc[t] = "barrier" => new_bytes[t] = wend[t]
    ELSE FALSE

C11_Ended ==
    IF pc = "exited"
    THEN IF Found THEN exit_code = 0
         ELSE /\ Exhausted /\ exit_code = 1
              /\ stderr[Len(stderr)] = Msg("no match found.\n")
    ELSE FALSE

C11_NoWrap ==
    /\ [][C11_CounterGrows]_vars
    /\ []C11_LoopExit
    /\ <>C11_Ended

\* two threads have left the loop, the second with its counter at 2^64 - 1,
\* and the run has ended in Exhausted
C11_Witness ==
    /\ Exhausted /\ nthreads = 2 /\ max_search = U64Max
    /\ new_bytes[1] = U64Max /\ wpc[1] = "barrier"
    /\ result[1] = LoopDigest(Sub64[U64Max, U64(1)])

(***************************************************************************)
(* C12: for a prefix of n hex digits, no longer than the digest, the match *)
(* test of the search loop is true iff the first 4n bits of the digest     *)
(* equal the prefix: every step of the loop body either takes the          *)
(* candidate to the claim (the test was true) or goes on to the next       *)
(* counter (it was false), and it takes it to the claim exactly when the   *)
(* leading n nibbles of the digest it computed are the digits given.       *)
(***************************************************************************)
C12_LoopBodyStep(t) ==
    /\ pc = "searching" /\ wpc[t] = "loop"
    /\ wpc'[t] = "wait" \/ new_bytes'[t] # new_bytes[t]

C13_Claim ==
    pc = "searching" =>
        /\ bits <= 8 * EVP_MD_size(md)
        /\ (bits + 7) \div 8 <= Len(EVP_DigestFinal_ex(hash_state))

(***************************************************************************)
(* C14: on a valid command line the bytes hashed and written for a         *)
(* counter c that passed the match test are the decimal text of c as an    *)
(* unsigned value: digits only, without sign or leading zero,   *)
(* at most 20 characters, and reading the text back gives c; the digest    *)
(* is the digest of the input followed by that text.                       *)
(***************************************************************************)
C14_Claim ==
    \A t \in Threads :
        (~ConfigError /\ wpc[t] \in {"wait", "report", "write", "close", "print", "line"}) =>
            LET text == SubSeq(data[t], 1, datalen[t])
            IN  /\ text = Dec64(new_bytes[t])
                /\ \A i \in DOMAIN text : IsDigit(text[i])
                /\ Len(text) <= 20
                /\ Len(text) > 1 => text[1] # 48
                /\ AtolDigits[text, U64(0)] = new_bytes[t]
                /\ result[t] = DigestOf(md, stdin \o Dec64(new_bytes[t]))

(***************************************************************************)
(* C15: under every schedule of short writes, each accepting at least one  *)
(* byte, reliable_write delivers exactly the bytes of its buffer, once     *)
(* each and in order, and returns count: so it is for the call that echoes *)
(* any next block of the input and for the call that writes any thread's   *)
(* counter text, and what the calls made so far have delivered is the      *)
(* input read so far, followed by the counter text once it is written.     *)
(***************************************************************************)
C15_Delivers ==
    /\ \A sched \in WriteSchedules :
          /\ \A n \in 1..Len(stdin) - rpos :
                reliable_write(stdout, SubSeq(stdin, rpos + 1, rpos + n), n, sched, 0)
                    = [out |-> stdout \o SubSeq(stdin, rpos + 1, rpos + n), ret |-> n]
          /\ \A t \in Threads :
                reliable_write(stdout, data[t], datalen[t], sched, 0)
                    = [out |-> stdout \o SubSeq(data[t], 1, datalen[t]),
                       ret |-> datalen[t]]
    /\ (MatchingMode /\ pc \in {"reading", "searching"}) =>
          \/ stdout = SubSeq(stdin, 1, rpos)
          \/ \E t \in Threads :
                /\ wpc[t] = "close"
                /\ stdout = stdin \o SubSeq(data[t], 1, datalen[t])

\* the input was echoed in two blocks and a counter text of twenty
\* characters has been written after it
C15_Witness ==
    /\ stdin # <<>> /\ count = Len(stdin)
    /\ \E t \in Threads :
          /\ wpc[t] = "close" /\ datalen[t] = 20
          /\ stdout = stdin \o SubSeq(data[t], 1, datalen[t])

(***************************************************************************)
(* C16: once a read or a write has returned -1 the program has terminated  *)
(* with an error status: the loop the call is in has not gone on, and      *)
(* nothing was written or absorbed after the failure.                      *)
(***************************************************************************)
C16_Claim ==
    (~ConfigError /\ io_error # "none") => (pc = "exited" /\ exit_code \notin {-1, 0})

(***************************************************************************)
(* C17: in listing mode, on a valid command line, the input is never       *)
(* echoed: every line on standard output is '<hex digest> ascii <counter>' *)
(* for a counter of the range in decimal and the digest of the input       *)
(* followed by that decimal text, which has the prefix; no counter is      *)
(* listed twice; what follows the last complete line is the digest a       *)
(* thread is about to complete; and a search that has ended has ended      *)
(* Exhausted, never on a match.                                            *)
(***************************************************************************)
\* the result line of the 64-bit counter c, without its newline
ListingLine(c) ==
    HexText[DigestOf(md, stdin \o Dec64(c))] \o <<32, 97, 115, 99, 105, 105, 32>> \o Dec64(c)

\* what stands on standard output after the last newline
PartialLine ==
    LET ends == {i \in DOMAIN stdout : stdout[i] = 10}
    IN  IF ends = {} THEN stdout
        ELSE SubSeq(stdout, (CHOOSE i \in ends : \A j \in ends : j <= i) + 1, Len(stdout))

C17_Claim ==
    (~MatchingMode /\ ~ConfigError) =>
        /\ \A i \in DOMAIN ListedCounters :
              /\ LinesOf[stdout, <<>>][i] = ListingLine(ListedCounters[i])
              /\ Lt64[ListedCounters[i], max_search]
              /\ PrefixHolds(DigestOf(md, stdin \o Dec64(ListedCounters[i])), HexArg)
        /\ \A i, j \in DOMAIN ListedCounters :
              ListedCounters[i] = ListedCounters[j] => i = j
        /\ \/ PartialLine = <<>>
           \/ \E t \in Threads : wpc[t] = "line" /\ PartialLine = HexText[result[t]]
        /\ (pc = "exited" /\ Searched) => Exhausted

(***************************************************************************)
(* C18: while the search runs no step changes the base digest context or   *)
(* the target prefix; the base context is the context of the input, and    *)
(* the digest every thread holds for the counter text it formatted last is *)
(* the digest of the input followed by that text, and is the digest a new  *)
(* clone of the base context gives for that text now, whatever the other   *)
(* threads have evaluated in between.                                      *)
(***************************************************************************)
C18_BaseKept == pc = "searching" => (hash_state' = hash_state /\ s' = s /\ bits' = bits)

C18_CloneDigest ==
    IF pc = "searching"
    THEN /\ hash_state = EVP_DigestUpdate(EVP_DigestInit_ex(md), stdin)
         /\ \A t \in Threads :
               datalen[t] > 0 =>
                   /\ result[t] = DigestOf(md, stdin \o SubSeq(data[t], 1, datalen[t]))
                   /\ result[t] = EVP_DigestFinal_ex(
                                      EVP_DigestUpdate(EVP_MD_CTX_copy_ex(hash_state),
                                                       SubSeq(data[t], 1, datalen[t])))
    ELSE TRUE

C18_BaseReadOnly == [][C18_BaseKept]_vars /\ []C18_CloneDigest

\* two threads have each evaluated candidates, one of them more than one, and
\* it holds the digest of a counter that is not the first of its chunk
C18_Witness ==
    /\ pc = "searching" /\ nthreads = 2
    /\ \A t \in Threads : datalen[t] > 0
    /\ \E t \in Threads : wpc[t] = "wait" /\ Lt64[wbeg[t], new_bytes[t]]

(***************************************************************************)
(* C19: a step that processes -d with a known digest leaves the mode and   *)
(* max_search as they are, a step that processes -b leaves the mode and    *)
(* the digest as they are, and the mode changes only in a step that        *)
(* processes -l, which turns matching mode off; so at every point the run  *)
(* is in listing mode exactly when a -l has been processed, whatever       *)
(* options stand before or after it.                                       *)
(***************************************************************************)
C19_OptionStep ==
    /\ (pc = "getopt" /\ getopt.ch = 100 /\ md' # <<>>) =>
           (make_matching' = make_matching /\ max_search' = max_search)
    /\ (pc = "getopt" /\ getopt.ch = 98) => (make_matching' = make_matching /\ md' = md)
    /\ (make_matching' # make_matching) =>
           (pc = "getopt" /\ getopt.ch = 108 /\ make_matching' = 0)

C19_ModeByL ==
    IF \E i \in 1..Min(optind - 1, Len(argv)) :
          argv[i] = OptL /\ (i = 1 \/ argv[i - 1] \notin {OptB, OptD})
    THEN make_matching = 0
    ELSE make_matching = 1

C19_Frame == [][C19_OptionStep]_vars /\ []C19_ModeByL

\* -d sha1 and -b were both processed and the search runs in matching mode
C19_Witness ==
    /\ pc = "searching" /\ make_matching = 1 /\ md = SHA1
    /\ Processed(OptD) # {} /\ Processed(OptB) # {}

(***************************************************************************)
(* C20: in a listing-mode search at most one thread is in the emit step    *)
(* (between the digest and the end of its line), and it is the thread      *)
(* that holds the critical section; every complete line on standard        *)
(* output is one candidate's line: the hex digest of the input followed by *)
(* the counter text that ends the line, ' ascii ', and that counter text;  *)
(* and an unfinished line is the digest of the one thread in the emit      *)
(* step, which will complete it with its own counter.                      *)
(***************************************************************************)
\* the threads between print_result and the end of fprintf
Emitting == {t \in Threads : wpc[t] \in {"print", "line"}}

C20_AtomicLine ==
    (~MatchingMode /\ Searched) =>
        /\ Cardinality(Emitting) <= 1
        /\ \A t \in Emitting : critical = t
        /\ \A i \in DOMAIN LinesOf[stdout, <<>>] :
              LET line == LinesOf[stdout, <<>>][i]
              IN  line = HexText[DigestOf(md, stdin \o LastField(line))]
                            \o <<32, 97, 115, 99, 105, 105, 32>> \o LastField(line)
        /\ \/ PartialLine = <<>> /\ \A t \in Threads : wpc[t] # "line"
           \/ \E t \in Threads :
                 /\ wpc[t] = "line"
                 /\ PartialLine = HexText[DigestOf(md, stdin \o FormatLLI(new_bytes[t]))]

\* one thread has written its digest and not yet its counter while the other
\* thread waits with a qualifying candidate, after a line was completed
C20_Witness ==
    /\ ~MatchingMode /\ nthreads = 2
    /\ \E t1, t2 \in Threads : t1 # t2 /\ wpc[t1] = "line" /\ wpc[t2] = "wait"
    /\ Len(LinesOf[stdout, <<>>]) >= 1

=============================================================================
